---- MODULE Spec2Model ----
(***************************************************************************)
(* SqliteBuilder (kysely-sqlite-builder): the nested transaction/savepoint *)
(* manager `transaction()` and the schema-sync entry point `syncDB()`,     *)
(* over one SQLite connection.                                             *)
(*                                                                         *)
(* The builder keeps `trx` (the active root Transaction, or undefined) and *)
(* `trxCount` (the savepoint counter).  Every call of transaction() is a   *)
(* record of `calls`; `stack` is the chain of calls that are awaited, the  *)
(* innermost last (sequential use: a nested call is awaited by the fn that *)
(* made it).  Call ids are positions of `calls`: the calls in flight come  *)
(* first, in the order of `stack`, then the call that settled in the last  *)
(* step, if one did.                                                       *)
(*                                                                         *)
(* fn is an async function (its declared type is (trx) => Promise<O>): a   *)
(* throw of fn is a rejection of the promise it returns.                   *)
(* Under sequential use the onCommit and onRollback hooks return or throw  *)
(* and make no call of the builder of their own.                           *)
(*                                                                         *)
(* Four further parts have a specification each: the handle of             *)
(* precompile().build() (`pre`), a softDelete table behind the soft-delete *)
(* executor (`soft`), the column diff of one table (`tbl`), and two calls  *)
(* of transaction() in flight at once (`flows`): two flows of the          *)
(* application, or a call made by the fn or a hook of the other call,      *)
(* awaited or not.                                                         *)
(*                                                                         *)
(* The options of a call (onCommit, onRollback, errorMsg) are inputs of    *)
(* the call; each is drawn where the code first reads it, which gives the  *)
(* same behaviours as drawing it at the call.                              *)
(***************************************************************************)
EXTENDS Integers, Sequences, FiniteSets, TLC

VARIABLES
    logger,     \* BOOLEAN: options.logger was given to the constructor
    trx,        \* this.trx: 0 = undefined, else the id of the call whose Transaction it is
    trxCount,   \* this.trxCount
    calls,      \* the transaction() calls in flight, then the one that has just settled
    ncalls,     \* transaction() calls made so far in the current top-level call tree
    stack,      \* ids of the calls in flight, outermost first
    eng,        \* the SQLite connection: committed content, open transaction, savepoints
    nrows,      \* rows inserted so far (row ids are fresh)
    faults,     \* statements that failed for a reason outside the model (busy, I/O, constraint)
    sync,       \* the syncDB() call in flight or last settled
    pre,        \* the handle of precompile().build(): constructor, cached entry, calls made
    soft,       \* a softDelete table behind the soft-delete executor, and the last request
    tbl,        \* one table that is both desired and live: its columns, the column plan
    flows       \* two calls of transaction() in flight at once

vars == <<logger, trx, trxCount, calls, ncalls, stack, eng, nrows, faults, sync, pre, soft, tbl, flows>>

\* What transaction(), execute() and syncDB() work on, and what they leave alone.
txState == <<logger, trx, trxCount, calls, ncalls, stack, eng, nrows, faults, sync>>
otherState == <<pre, soft, tbl, flows>>

\* ---------------------------------------------------------------- bounds
MaxCalls == 3
MaxRows == 2
MaxFaults == 1

Results == {"r1"}
Tables == {"blob", "foo", "test"}
HookKinds == {"absent", "returns", "throws"}
ErrorMsgs == {"undefined", "empty", "text"}

\* ------------------------------------------------- the SQLite connection
\* Content is what a query can see: the rows and the tables.
Content0 == [rows |-> {}, tabs |-> {}]

\* `closed`: the connection was closed by destroy().  `log`: the statements
\* of execute() since the last call from top level, in the order the
\* connection ran them, each with the handle it came through.
Eng0 ==
    [inTx |-> FALSE, auto |-> FALSE, db |-> Content0, work |-> Content0, sps |-> <<>>,
     closed |-> FALSE, log |-> <<>>]

\* What a statement issued now on the connection sees.
Visible(e) == IF e.inTx THEN e.work ELSE e.db

\* A data or structural statement: inside the open transaction when there is
\* one, committed at once otherwise.
EngApply(e, c) ==
    IF e.inTx THEN [e EXCEPT !.work = c]
    ELSE [e EXCEPT !.db = c, !.work = c]

\* BEGIN: "cannot start a transaction within a transaction".
EngBegin(e) ==
    IF e.inTx THEN [ok |-> FALSE, eng |-> e]
    ELSE [ok |-> TRUE, eng |-> [e EXCEPT !.inTx = TRUE, !.auto = FALSE, !.work = e.db, !.sps = <<>>]]

\* COMMIT: "cannot commit - no transaction is active".
EngCommit(e) ==
    IF ~e.inTx THEN [ok |-> FALSE, eng |-> e]
    ELSE [ok |-> TRUE, eng |-> [e EXCEPT !.inTx = FALSE, !.auto = FALSE, !.db = e.work, !.sps = <<>>]]

\* ROLLBACK: "cannot rollback - no transaction is active".
EngRollback(e) ==
    IF ~e.inTx THEN [ok |-> FALSE, eng |-> e]
    ELSE [ok |-> TRUE, eng |-> [e EXCEPT !.inTx = FALSE, !.auto = FALSE, !.work = e.db, !.sps = <<>>]]

\* The most recent savepoint of that name, 0 when there is none.
LastSp(sps, n) ==
    LET I == {i \in 1..Len(sps) : sps[i].name = n}
    IN  IF I = {} THEN 0 ELSE CHOOSE i \in I : \A j \in I : j <= i

\* SAVEPOINT sp_n: names may repeat; outside a transaction it starts one.
EngSavepoint(e, n) ==
    IF e.inTx THEN [e EXCEPT !.sps = Append(@, [name |-> n, snap |-> e.work])]
    ELSE [e EXCEPT !.inTx = TRUE, !.auto = TRUE, !.work = e.db,
                   !.sps = <<[name |-> n, snap |-> e.db]>>]

\* RELEASE sp_n: drops the most recent sp_n and every savepoint above it;
\* releasing the savepoint that started the transaction commits.
EngRelease(e, n) ==
    LET i == LastSp(e.sps, n)
    IN  IF ~e.inTx \/ i = 0 THEN [ok |-> FALSE, eng |-> e]
        ELSE IF i = 1 /\ e.auto
             THEN [ok |-> TRUE, eng |-> [e EXCEPT !.inTx = FALSE, !.auto = FALSE,
                                                  !.db = e.work, !.sps = <<>>]]
             ELSE [ok |-> TRUE, eng |-> [e EXCEPT !.sps = SubSeq(@, 1, i - 1)]]

\* ROLLBACK TO sp_n: back to the content at the most recent sp_n, dropping
\* the savepoints above it; sp_n itself stays.
EngRollbackTo(e, n) ==
    LET i == LastSp(e.sps, n)
    IN  IF ~e.inTx \/ i = 0 THEN [ok |-> FALSE, eng |-> e]
        ELSE [ok |-> TRUE, eng |-> [e EXCEPT !.work = e.sps[i].snap, !.sps = SubSeq(@, 1, i)]]

\* A statement may also fail for a reason outside the model; at most
\* MaxFaults do.  ROLLBACK and ROLLBACK TO fail only for the reasons above.
FaultChoices == IF faults < MaxFaults THEN {FALSE, TRUE} ELSE {FALSE}

\* ------------------------------------------------------------ the builder
\* A getter that hands out the base instance whatever this.trx holds.
KyselyBase(t) == 0

\* `this.trx || this._kysely`, line 113 (0 is the base instance).
KyselyOf(t) == IF t # 0 THEN t ELSE 0

\* get kysely(), lines 112-114.
Kysely == KyselyOf(trx)

\* A builder that takes the root path whatever this.trx holds.
IsRootPathAlways(t) == TRUE

\* `if (!this.trx)`: the root path.
IsRootPath(t) == t = 0

\* A finally-handler that leaves this.trx as it is.
FinallyTrxKeep(t) == t

\* `.finally(() => this.trx = undefined)`
FinallyTrx(t) == 0

\* `.finally(() => this.trxCount--)`
FinallyCount(n) == n - 1

\* A logError that logs whether or not a message was given.
LogErrorAlways(hasLogger, errorMsg) == hasLogger

\* logError: `errorMsg && this.logger?.error(errorMsg, ...)`; undefined and
\* the empty string are falsy.
LogError(hasLogger, errorMsg) == errorMsg = "text" /\ hasLogger

\* A nested catch-handler that forgets `await rollback()`.
AfterFnThrowNoRollback(kind) == IF kind = "root" THEN "rollback" ELSE "onRollback"

\* Where a rejection of fn lands: execute()'s catch (ROLLBACK, line 255) for
\* the root, the catch-handler of line 283 (`await rollback()`) for a
\* nested call.
AfterFnThrow(kind) == IF kind = "root" THEN "rollback" ELSE "rollbackTo"

\* A catch-handler that rethrows.
CatchOutcomeRethrow(h) == "rejected"

\* The catch-handler of lines 265-269 and 283-288 ends `return undefined`
\* unless the onRollback hook threw.
CatchOutcome(h) == IF h = "throws" THEN "rejected" ELSE "resolved"

Ev(op, arg) == [op |-> op, arg |-> arg]

NewCall(kind, parent) ==
    [kind |-> kind, parent |-> parent,
     pc |-> IF kind = "root" THEN "begin" ELSE "savepoint",
     sp |-> IF kind = "root" THEN 0 ELSE trxCount + 1,
     slotAtCall |-> trx, slotAfter |-> 0,
     cntBefore |-> trxCount, cntAfter |-> 0,
     handle |-> 0,
     onCommit |-> "unread", onRollback |-> "unread", errorMsg |-> "unread",
     res |-> "none", err |-> "none",
     outcome |-> "pending", value |-> "none",
     ev |-> <<>>, wrote |-> {}, snap |-> {}, kept |-> {}, visAfter |-> {}]

\* No syncDB() call was made since the last statement or transaction.
SyncIdle ==
    [pc |-> "idle", updater |-> "none", checkIntegrity |-> FALSE, desired |-> {},
     plan |-> <<>>, i |-> 0, before |-> {}, caught |-> "none",
     result |-> [ready |-> FALSE, error |-> "none"], settled |-> "pending", ev |-> <<>>]

Top == stack[Len(stack)]

\* The application is at top level: no call in flight, and the builder was
\* not destroyed (a destroyed builder is not used again).
Idle == stack = <<>> /\ sync.pc \in {"idle", "done"} /\ ~eng.closed

\* Call c is the one whose code runs next: the innermost call in flight.
At(c, pc) == stack # <<>> /\ c = Top /\ c <= Len(calls) /\ calls[c].pc = pc

Pop == SubSeq(stack, 1, Len(stack) - 1)

\* The records of the calls in flight.
Live == SubSeq(calls, 1, Len(stack))

OkArg(ok) == IF ok THEN "ok" ELSE "fail"

FnThrew(rec) == \E i \in 1..Len(rec.ev) : rec.ev[i] = Ev("fn", "eFn")

\* The records kept when call c settles as rec: the calls in flight and c.
\* The call that awaits c notes in `kept` the rows it had written itself
\* before the savepoint of a nested call whose fn threw.
Settled(c, rec) ==
    [i \in 1..c |->
        IF i = c THEN rec
        ELSE IF i = c - 1 /\ rec.kind = "nested" /\ FnThrew(rec)
             THEN [calls[i] EXCEPT !.kept = @ \cup (rec.snap \cap calls[i].wrote)]
             ELSE calls[i]]

\* transaction(fn, options), lines 250-254 and 273-275: from the application
\* (no call in flight) or from the fn of the innermost call in flight.
CallTransaction ==
    /\ \/ Idle
       \/ stack # <<>> /\ calls[Top].pc = "fn"
    /\ LET base == Live
           id == Len(base) + 1
           parent == IF stack = <<>> THEN 0 ELSE Top
       IN  /\ ncalls' = IF stack = <<>> THEN 1 ELSE ncalls + 1
           /\ ncalls' <= MaxCalls
           /\ IF IsRootPath(trx)
              THEN /\ calls' = Append(base, NewCall("root", parent))
                   /\ UNCHANGED trxCount
              ELSE /\ calls' = Append(base, NewCall("nested", parent))
                   /\ trxCount' = trxCount + 1
           /\ stack' = Append(stack, id)
    /\ sync' = IF stack = <<>> THEN SyncIdle ELSE sync
    /\ eng' = IF stack = <<>> THEN [eng EXCEPT !.log = <<>>] ELSE eng
    /\ UNCHANGED <<otherState, logger, trx, nrows, faults>>

\* kysely's transaction().execute(), line 255: BEGIN, then the callback of
\* lines 256-260 sets this.trx and starts fn.  A failed BEGIN goes to
\* execute()'s catch, which rolls back.
Begin(c) ==
    /\ At(c, "begin")
    /\ \E fault \in FaultChoices :
        LET r == EngBegin(eng)
            ok == ~fault /\ r.ok
        IN  /\ eng' = IF ok THEN r.eng ELSE eng
            /\ trx' = IF ok THEN c ELSE trx
            /\ faults' = IF fault THEN faults + 1 ELSE faults
            /\ calls' = [Live EXCEPT
                 ![c].pc = IF ok THEN "fn" ELSE "rollback",
                 ![c].err = IF ok THEN @ ELSE "eBegin",
                 ![c].handle = IF ok THEN c ELSE @,
                 ![c].snap = Visible(eng).rows,
                 ![c].ev = Append(@, Ev("begin", OkArg(ok)))]
    /\ UNCHANGED <<otherState, logger, ncalls, trxCount, stack, nrows, sync>>

\* savePoint(this.kysely, `sp_${this.trxCount}`), line 275.  When it throws,
\* the call rejects there: the chain of lines 277-289 is never built.
Savepoint(c) ==
    /\ At(c, "savepoint")
    /\ \E fault \in FaultChoices :
        /\ eng' = IF fault THEN eng ELSE EngSavepoint(eng, calls[c].sp)
        /\ faults' = IF fault THEN faults + 1 ELSE faults
        /\ stack' = IF fault THEN Pop ELSE stack
        /\ calls' = IF fault
                    THEN Settled(c, [calls[c] EXCEPT
                            !.pc = "done",
                            !.outcome = "rejected",
                            !.value = "eSavepoint",
                            !.slotAfter = trx,
                            !.cntAfter = trxCount,
                            !.visAfter = Visible(eng).rows,
                            !.ev = Append(@, Ev("savepoint", "fail"))])
                    ELSE [Live EXCEPT
                            ![c].pc = "fn",
                            ![c].handle = Kysely,
                            ![c].snap = Visible(eng).rows,
                            ![c].ev = Append(@, Ev("savepoint", "ok"))]
    /\ UNCHANGED <<otherState, logger, ncalls, trx, trxCount, nrows, sync>>

\* execute(), lines 304-310: a statement on this.kysely, from the
\* application or from fn.  It inserts a fresh row.  raw() (lines 396-403)
\* reaches the connection through the same getter.
Execute ==
    /\ \/ Idle
       \/ stack # <<>> /\ calls[Top].pc = "fn"
    /\ nrows < MaxRows
    /\ nrows' = nrows + 1
    /\ eng' = [EngApply(eng, [Visible(eng) EXCEPT !.rows = @ \cup {nrows + 1}])
                EXCEPT !.log = Append(IF stack = <<>> THEN <<>> ELSE @,
                                      [row |-> nrows + 1, via |-> Kysely, slot |-> trx,
                                       depth |-> Len(stack)])]
    /\ calls' = IF stack = <<>> THEN Live
                ELSE [Live EXCEPT ![Top].wrote = @ \cup {nrows + 1}]
    /\ sync' = IF stack = <<>> THEN SyncIdle ELSE sync
    /\ UNCHANGED <<otherState, logger, ncalls, trx, trxCount, stack, faults>>

\* fn resolves with r: the root goes on to COMMIT (execute()), a nested call
\* to the then-handler of line 278.
FnReturn(c) ==
    /\ At(c, "fn")
    /\ \E r \in Results :
        calls' = [Live EXCEPT
            ![c].res = r,
            ![c].pc = IF calls[c].kind = "root" THEN "commit" ELSE "release",
            ![c].ev = Append(@, Ev("fn", r))]
    /\ UNCHANGED <<otherState, logger, ncalls, trx, trxCount, stack, eng, nrows, faults, sync>>

\* fn rejects with e: the root goes to execute()'s catch, a nested call to
\* the catch-handler of line 283.
FnThrow(c) ==
    /\ At(c, "fn")
    /\ calls' = [Live EXCEPT
            ![c].err = "eFn",
            ![c].pc = AfterFnThrow(calls[c].kind),
            ![c].ev = Append(@, Ev("fn", "eFn"))]
    /\ UNCHANGED <<otherState, logger, ncalls, trx, trxCount, stack, eng, nrows, faults, sync>>

\* execute(): COMMIT after the callback returned; a failed COMMIT goes to
\* execute()'s catch.
Commit(c) ==
    /\ At(c, "commit")
    /\ \E fault \in FaultChoices :
        LET r == EngCommit(eng)
            ok == ~fault /\ r.ok
        IN  /\ eng' = IF ok THEN r.eng ELSE eng
            /\ faults' = IF fault THEN faults + 1 ELSE faults
            /\ calls' = [Live EXCEPT
                 ![c].pc = IF ok THEN "onCommit" ELSE "rollback",
                 ![c].err = IF ok THEN @ ELSE "eCommit",
                 ![c].ev = Append(@, Ev("commit", OkArg(ok)))]
    /\ UNCHANGED <<otherState, logger, ncalls, trx, trxCount, stack, nrows, sync>>

\* execute()'s catch: ROLLBACK, then rethrow; a failing ROLLBACK throws its
\* own error instead.
Rollback(c) ==
    /\ At(c, "rollback")
    /\ LET r == EngRollback(eng)
       IN  /\ eng' = r.eng
           /\ calls' = [Live EXCEPT
                ![c].pc = "onRollback",
                ![c].err = IF r.ok THEN @ ELSE "eRollback",
                ![c].ev = Append(@, Ev("rollback", OkArg(r.ok)))]
    /\ UNCHANGED <<otherState, logger, ncalls, trx, trxCount, stack, nrows, faults, sync>>

\* `await release()`, line 279; when it throws, the catch-handler of line
\* 283 runs.
Release(c) ==
    /\ At(c, "release")
    /\ \E fault \in FaultChoices :
        LET r == EngRelease(eng, calls[c].sp)
            ok == ~fault /\ r.ok
        IN  /\ eng' = IF ok THEN r.eng ELSE eng
            /\ faults' = IF fault THEN faults + 1 ELSE faults
            /\ calls' = [Live EXCEPT
                 ![c].pc = IF ok THEN "onCommit" ELSE "rollbackTo",
                 ![c].err = IF ok THEN @ ELSE "eRelease",
                 ![c].ev = Append(@, Ev("release", OkArg(ok)))]
    /\ UNCHANGED <<otherState, logger, ncalls, trx, trxCount, stack, nrows, sync>>

\* `await rollback()`, line 284; when it throws, the catch-handler rejects
\* and only the finally-handler is left.
RollbackTo(c) ==
    /\ At(c, "rollbackTo")
    /\ LET r == EngRollbackTo(eng, calls[c].sp)
       IN  /\ eng' = r.eng
           /\ calls' = [Live EXCEPT
                ![c].pc = IF r.ok THEN "onRollback" ELSE "finally",
                ![c].outcome = IF r.ok THEN @ ELSE "rejected",
                ![c].value = IF r.ok THEN @ ELSE "eRollbackTo",
                ![c].ev = Append(@, Ev("rollbackTo", OkArg(r.ok)))]
    /\ UNCHANGED <<otherState, logger, ncalls, trx, trxCount, stack, nrows, faults, sync>>

\* Where a throw inside the then-handler lands: the catch-handler that
\* follows it in the chain (line 265, or line 283 which starts with
\* `await rollback()`).
AfterThenThrow(kind) == IF kind = "root" THEN "onRollback" ELSE "rollbackTo"

\* `await options.onCommit?.(result); return result`, lines 262-263 and
\* 280-281.
ThenHook(c) ==
    /\ At(c, "onCommit")
    /\ \E h \in HookKinds :
        calls' = [Live EXCEPT
            ![c].onCommit = h,
            ![c].pc = IF h = "throws" THEN AfterThenThrow(calls[c].kind) ELSE "finally",
            ![c].err = IF h = "throws" THEN "eOnCommit" ELSE @,
            ![c].outcome = IF h = "throws" THEN @ ELSE "resolved",
            ![c].value = IF h = "throws" THEN @ ELSE calls[c].res,
            ![c].ev = IF h = "absent" THEN @ ELSE Append(@, Ev("onCommit", calls[c].res))]
    /\ UNCHANGED <<otherState, logger, ncalls, trx, trxCount, stack, eng, nrows, faults, sync>>

\* `await options.onRollback?.(e); this.logError(e, options.errorMsg);
\* return undefined`, lines 266-268 and 285-287.
CatchHook(c) ==
    /\ At(c, "onRollback")
    /\ \E h \in HookKinds, m \in ErrorMsgs :
        LET e == calls[c].err
            hooked == IF h = "absent" THEN calls[c].ev
                      ELSE Append(calls[c].ev, Ev("onRollback", e))
        IN  /\ h = "throws" => m = "undefined"
            /\ calls' = [Live EXCEPT
                 ![c].onRollback = h,
                 ![c].errorMsg = IF h = "throws" THEN @ ELSE m,
                 ![c].pc = "finally",
                 ![c].outcome = CatchOutcome(h),
                 ![c].value = IF h = "throws" THEN "eOnRollback" ELSE "undefined",
                 ![c].ev = IF h # "throws" /\ LogError(logger, m)
                           THEN Append(hooked, Ev("logger.error", e))
                           ELSE hooked]
    /\ UNCHANGED <<otherState, logger, ncalls, trx, trxCount, stack, eng, nrows, faults, sync>>

\* The finally-handler, line 270 or line 289; the call settles.
Finally(c) ==
    /\ At(c, "finally")
    /\ trx' = IF calls[c].kind = "root" THEN FinallyTrx(trx) ELSE trx
    /\ trxCount' = IF calls[c].kind = "root" THEN trxCount ELSE FinallyCount(trxCount)
    /\ stack' = Pop
    /\ calls' = Settled(c, [calls[c] EXCEPT
            !.pc = "done",
            !.slotAfter = trx',
            !.cntAfter = trxCount',
            !.visAfter = Visible(eng).rows])
    /\ UNCHANGED <<otherState, logger, ncalls, eng, nrows, faults, sync>>

\* destroy(), lines 418-422, called by the application while no call is in
\* flight: the connection is closed and this.trx is set to undefined;
\* this.trxCount is not assigned.
Destroy ==
    /\ Idle
    /\ eng' = [eng EXCEPT !.closed = TRUE]
    /\ trx' = 0
    /\ UNCHANGED <<otherState, logger, trxCount, calls, ncalls, stack, nrows, faults, sync>>

\* ------------------------------------------------------------- syncDB()
Updaters == {"useSchema", "custom"}

\* The tables in name order.
TableOrder == <<"blob", "foo", "test">>

\* A diff that never drops a table.
DiffOpNoDrop(desired, live, t) ==
    IF t \in desired \ live THEN <<[kind |-> "CreateTable", tab |-> t]>> ELSE <<>>

\* An introspection that lists the tables in reverse name order.
IntrospectReversed(tabs) ==
    LET list == SelectSeq(TableOrder, LAMBDA t : t \in tabs)
    IN  [i \in 1..Len(list) |-> list[Len(list) + 1 - i]]

\* introspection.getTables(): the live tables, ordered by name.
Introspect(tabs) == SelectSeq(TableOrder, LAMBDA t : t \in tabs)

\* The diff of the desired tables against the live ones, in table-name
\* order: a table only desired is created, a table only live is dropped.
DiffOp(desired, live, t) ==
    IF t \in desired \ live THEN <<[kind |-> "CreateTable", tab |-> t]>>
    ELSE IF t \in live \ desired THEN <<[kind |-> "DropTable", tab |-> t]>>
    ELSE <<>>

RECURSIVE DiffFrom(_, _, _)
DiffFrom(desired, live, k) ==
    IF k > Len(TableOrder) THEN <<>>
    ELSE DiffOp(desired, live, TableOrder[k]) \o DiffFrom(desired, live, k + 1)

DiffPlan(desired, live) == DiffFrom(desired, live, 1)

ApplyOp(tabs, op) ==
    IF op.kind = "CreateTable" THEN tabs \cup {op.tab} ELSE tabs \ {op.tab}

\* A syncDB that reports success whatever the updater returned.
SyncResultReady(r) == [ready |-> TRUE, error |-> "none"]

\* `return result`, line 233: the updater's StatusResult as it is.
SyncResult(r) == r

\* A catch that drops the error it caught.
CaughtResultNoError(e) == [ready |-> FALSE, error |-> "none"]

\* `return { ready: false, error }`, lines 236-239.
CaughtResult(e) == [ready |-> FALSE, error |-> e]

\* syncDB(updater, checkIntegrity), lines 225-227, called by the application
\* while no transaction is in flight.
SyncDB ==
    /\ Idle
    /\ \E u \in Updaters, chk \in BOOLEAN, d \in SUBSET Tables :
        /\ u = "custom" => d = {}
        /\ sync' = [SyncIdle EXCEPT
             !.pc = IF chk THEN "integrity" ELSE "updater",
             !.updater = u, !.checkIntegrity = chk, !.desired = d,
             !.before = eng.db.tabs]
    /\ calls' = <<>>
    /\ ncalls' = 0
    /\ UNCHANGED <<otherState, logger, trx, trxCount, stack, eng, nrows, faults>>

\* A syncDB that goes on to the updater although the check failed.
AfterIntegrityIgnored(o) ==
    IF o = "throws" THEN "catch" ELSE "updater"

\* Where syncDB goes after the integrity check, lines 227-231: on to the
\* updater when it passed, `return` of line 229 when it failed, the catch
\* of line 234 when it threw.
AfterIntegrity(o) ==
    IF o = "passes" THEN "updater" ELSE IF o = "fails" THEN "done" ELSE "catch"

\* `checkIntegrity && !(await runCheckIntegrity(this._kysely))`, lines
\* 227-230: the check passes, fails, or throws into the catch of line 234.
SyncIntegrity ==
    /\ sync.pc = "integrity"
    /\ \E o \in {"passes", "fails", "throws"} :
        sync' = [sync EXCEPT
            !.pc = AfterIntegrity(o),
            !.caught = IF o = "throws" THEN "eIntegrityCheck" ELSE @,
            !.result = IF o = "fails" THEN [ready |-> FALSE, error |-> "IntegrityError"] ELSE @,
            !.settled = IF o = "fails" THEN "resolved" ELSE @,
            !.ev = IF o = "fails" /\ logger
                   THEN Append(Append(@, Ev("integrity", o)), Ev("logger.error", "integrity check fail"))
                   ELSE Append(@, Ev("integrity", o))]
    /\ UNCHANGED <<otherState, logger, trx, trxCount, calls, ncalls, stack, eng, nrows, faults>>

\* `await updater(this._kysely, this.logger)`, line 231, for an updater
\* the application wrote: it returns a StatusResult or throws.
CustomUpdater ==
    /\ sync.pc = "updater" /\ sync.updater = "custom"
    /\ \E o \in {"ready", "notReady", "throws"} :
        sync' = [sync EXCEPT
            !.pc = IF o = "throws" THEN "catch" ELSE "return",
            !.caught = IF o = "throws" THEN "eUpdater" ELSE @,
            !.result = IF o = "ready" THEN [ready |-> TRUE, error |-> "none"]
                       ELSE IF o = "notReady" THEN [ready |-> FALSE, error |-> "eNotReady"]
                       ELSE @,
            !.ev = Append(@, Ev("updater", o))]
    /\ UNCHANGED <<otherState, logger, trx, trxCount, calls, ncalls, stack, eng, nrows, faults>>

\* useSchema: reads the live tables, computes the plan and opens the one
\* root transaction the plan is applied in.
SchemaBegin ==
    /\ sync.pc = "updater" /\ sync.updater = "useSchema"
    /\ \E fault \in FaultChoices :
        LET r == EngBegin(eng)
            ok == ~fault /\ r.ok
        IN  /\ eng' = IF ok THEN r.eng ELSE eng
            /\ faults' = IF fault THEN faults + 1 ELSE faults
            /\ sync' = [sync EXCEPT
                 !.pc = IF ok THEN "apply" ELSE "return",
                 !.plan = DiffPlan(sync.desired, eng.db.tabs),
                 !.i = 1,
                 !.result = IF ok THEN @ ELSE [ready |-> FALSE, error |-> "eBegin"],
                 !.ev = Append(@, Ev("begin", OkArg(ok)))]
    /\ UNCHANGED <<otherState, logger, trx, trxCount, calls, ncalls, stack, nrows>>

\* useSchema: the next structural statement of the plan.
SchemaApply ==
    /\ sync.pc = "apply" /\ sync.i <= Len(sync.plan)
    /\ \E fault \in FaultChoices :
        /\ eng' = IF fault THEN eng
                  ELSE EngApply(eng, [Visible(eng) EXCEPT !.tabs = ApplyOp(@, sync.plan[sync.i])])
        /\ faults' = IF fault THEN faults + 1 ELSE faults
        /\ sync' = [sync EXCEPT
             !.pc = IF fault THEN "rollback" ELSE @,
             !.i = IF fault THEN @ ELSE @ + 1,
             !.result = IF fault THEN [ready |-> FALSE, error |-> "DdlApplyError"] ELSE @,
             !.ev = Append(@, Ev("ddl", OkArg(~fault)))]
    /\ UNCHANGED <<otherState, logger, trx, trxCount, calls, ncalls, stack, nrows>>

\* useSchema: the plan is applied; COMMIT.
SchemaCommit ==
    /\ sync.pc = "apply" /\ sync.i > Len(sync.plan)
    /\ \E fault \in FaultChoices :
        LET r == EngCommit(eng)
            ok == ~fault /\ r.ok
        IN  /\ eng' = IF ok THEN r.eng ELSE eng
            /\ faults' = IF fault THEN faults + 1 ELSE faults
            /\ sync' = [sync EXCEPT
                 !.pc = IF ok THEN "return" ELSE "rollback",
                 !.result = IF ok THEN [ready |-> TRUE, error |-> "none"]
                            ELSE [ready |-> FALSE, error |-> "eCommit"],
                 !.ev = Append(@, Ev("commit", OkArg(ok)))]
    /\ UNCHANGED <<otherState, logger, trx, trxCount, calls, ncalls, stack, nrows>>

\* useSchema: a statement failed; ROLLBACK of the whole transaction, and the
\* failure is returned as { ready: false, error }.
SchemaRollback ==
    /\ sync.pc = "rollback"
    /\ LET r == EngRollback(eng)
       IN  /\ eng' = r.eng
           /\ sync' = [sync EXCEPT
                !.pc = "return",
                !.ev = Append(@, Ev("rollback", OkArg(r.ok)))]
    /\ UNCHANGED <<otherState, logger, trx, trxCount, calls, ncalls, stack, nrows, faults>>

\* `this.logger?.info('table updated'); return result`, lines 232-233.
SyncReturn ==
    /\ sync.pc = "return"
    /\ sync' = [sync EXCEPT
            !.pc = "done",
            !.result = SyncResult(sync.result),
            !.settled = "resolved",
            !.ev = IF logger THEN Append(@, Ev("logger.info", "table updated")) ELSE @]
    /\ UNCHANGED <<otherState, logger, trx, trxCount, calls, ncalls, stack, eng, nrows, faults>>

\* The catch of lines 234-240: logError(error, 'sync table fail') and
\* `return { ready: false, error }`.
SyncCatch ==
    /\ sync.pc = "catch"
    /\ sync' = [sync EXCEPT
            !.pc = "done",
            !.result = CaughtResult(sync.caught),
            !.settled = "resolved",
            !.ev = IF LogError(logger, "text")
                   THEN Append(@, Ev("logger.error", sync.caught)) ELSE @]
    /\ UNCHANGED <<otherState, logger, trx, trxCount, calls, ncalls, stack, eng, nrows, faults>>


\* -------------------------------------------------------- precompile()
MaxSlots == 2
MaxOps == 4

\* JavaScript values: a type tag and the characters of the value, so that a
\* string can be tested for a prefix and sliced as the code does.
Str(cs) == [t |-> "string", v |-> cs]
Num(cs) == [t |-> "number", v |-> cs]
Bool(cs) == [t |-> "boolean", v |-> cs]
Obj(cs) == [t |-> "object", v |-> cs]
Undefined == [t |-> "undefined", v |-> <<>>]

\* '__pre_', the prefix of a virtual-parameter token, line 363.
PrePrefix == <<"_", "_", "p", "r", "e", "_">>

\* `__pre_${name}`, line 363: what param(name) hands to the query constructor.
Token(name) == Str(PrePrefix \o name)

\* this.serializer, line 107 (defaultSerializer): undefined, numbers and
\* strings are returned as they are, any other value as its JSON text.
Serialize(v) ==
    IF v.t \in {"string", "number", "undefined"} THEN v ELSE Str(v.v)

\* The names a query constructor may pass to param(), the empty name among
\* them, and the literals it may put into the query itself.
ParamNames == {<<>>, <<"a">>}
Literals == {Str(PrePrefix \o <<"a">>), Num(<<"1">>), Obj(<<"{", "}">>)}

\* A query constructor is the list of the values it places in the query, in
\* order: param(name), or a literal of its own.  It returns the same query
\* whenever it is invoked, and it returns: a constructor that throws ends
\* compile() with its exception and leaves the handle as it was.
SlotSources ==
    [kind : {"param"}, name : ParamNames, val : {Undefined}]
        \cup [kind : {"lit"}, name : {<<>>}, val : Literals]

QueryConstructors ==
    UNION {[1..n -> SlotSources] : n \in 0..MaxSlots}

\* The parameter objects given to compile().
ParamObjects == [ParamNames -> {Num(<<"2">>), Bool(<<"t", "r", "u", "e">>)}]

\* param[key], a property the object lacks being undefined.
Lookup(param, key) ==
    IF key \in DOMAIN param THEN param[key] ELSE Undefined

\* queryBuilder(this.executor, name => `__pre_${name}`).compile(), line 363:
\* the SQL text has one placeholder per value, and the parameters are the
\* values in order, a literal as the serialize plugin of the executor
\* leaves it.
SqlOf(qc) == [i \in 1..Len(qc) |-> "?"]

Capture(qc) ==
    [i \in 1..Len(qc) |->
        IF qc[i].kind = "param" THEN Token(qc[i].name) ELSE Serialize(qc[i].val)]

NoEntry == [set |-> FALSE, sql |-> <<>>, parameters |-> <<>>]

\* A compile() that builds the query on every call.
NeedsBuildAlways(compiled) == TRUE

\* `if (!compiled)`, line 362.
NeedsBuild(compiled) == ~compiled.set

\* A dispose() that leaves the cached entry in place.
DisposeKeeps(compiled) == compiled

\* `const dispose = () => compiled = null`, line 357.
Disposed(compiled) == NoEntry

\* `typeof p === 'string' && p.startsWith('__pre_')`, line 373.
StartsWithPre(p) ==
    /\ p.t = "string"
    /\ Len(p.v) >= Len(PrePrefix)
    /\ SubSeq(p.v, 1, Len(PrePrefix)) = PrePrefix

\* `p.slice(6)`, line 373.
Slice6(p) == SubSeq(p.v, Len(PrePrefix) + 1, Len(p.v))

\* The callback of parameters.map, lines 372-375: key is the rest of a
\* string that starts with the prefix, and `key ? ... : p` looks a value up
\* only for a key that is not empty.
Substitute(p, param) ==
    IF StartsWithPre(p) /\ Slice6(p) # <<>>
    THEN Serialize(Lookup(param, Slice6(p)))
    ELSE p

NoHandle ==
    [built |-> FALSE, qc |-> <<>>, compiled |-> NoEntry, ncons |-> 0, log |-> <<>>]

\* precompile().build(queryBuilder), lines 348-360: the handle closes over
\* the constructor and an empty `compiled`.
Build ==
    /\ ~pre.built
    /\ \E qc \in QueryConstructors :
        pre' = [NoHandle EXCEPT !.built = TRUE, !.qc = qc]
    /\ UNCHANGED <<txState, soft, tbl, flows>>

\* handle.compile(param), lines 361-377.
Compile ==
    /\ pre.built
    /\ Len(pre.log) < MaxOps
    /\ \E param \in ParamObjects :
        LET build == NeedsBuild(pre.compiled)
            entry == IF build
                     THEN [set |-> TRUE, sql |-> SqlOf(pre.qc), parameters |-> Capture(pre.qc)]
                     ELSE pre.compiled
            result == [sql |-> entry.sql,
                       parameters |-> [i \in 1..Len(entry.parameters) |->
                                          Substitute(entry.parameters[i], param)]]
            n == IF build THEN pre.ncons + 1 ELSE pre.ncons
        IN  pre' = [pre EXCEPT
                !.compiled = entry,
                !.ncons = n,
                !.log = Append(@, [op |-> "compile", param |-> param, ncons |-> n,
                                   result |-> result])]
    /\ UNCHANGED <<txState, soft, tbl, flows>>

\* handle.dispose() or handle[Symbol.dispose](), lines 357-360.
Dispose ==
    /\ pre.built
    /\ Len(pre.log) < MaxOps
    /\ pre' = [pre EXCEPT
            !.compiled = Disposed(pre.compiled),
            !.log = Append(@, [op |-> "dispose", param |-> <<>>, ncons |-> pre.ncons,
                               result |-> [sql |-> <<>>, parameters |-> <<>>]])]
    /\ UNCHANGED <<txState, soft, tbl, flows>>


\* ------------------------------------------------- soft-delete executor
MaxIds == 3

Names == {"n1", "n2"}

NoRequest == [op |-> "none", key |-> 0, countBefore |-> 0, countAfter |-> 0, found |-> {}, n |-> 0]

\* No row, no request yet; `deleted` remembers the keys of the rows a
\* delete request was addressed to.
Soft0 == [rows |-> {}, nextId |-> 1, deleted |-> {}, last |-> NoRequest]

\* The rows a statement sees: all of them for the unfiltered variant, those
\* whose deleted flag is 0 with the predicate the executor injects.
NotDeleted(rows) == {r \in rows : r.isDeleted = 0}

\* An executor that lets a delete through as it is.
RewriteDeleteNone(rows, key) == {r \in rows : r.id # key}

\* deleteFrom(table).where('id', '=', key) through the soft-delete
\* executor: update table set isDeleted = 1 where id = key.
RewriteDelete(rows, key) ==
    {IF r.id = key THEN [r EXCEPT !.isDeleted = 1] ELSE r : r \in rows}

\* insertInto(table).values({ name }): the id is the next of the
\* autoincrement column, the deleted flag defaults to 0.
SoftInsert ==
    /\ soft.nextId <= MaxIds
    /\ \E name \in Names :
        LET rows == soft.rows \cup {[id |-> soft.nextId, name |-> name, isDeleted |-> 0]}
        IN  soft' = [soft EXCEPT
                !.rows = rows,
                !.nextId = @ + 1,
                !.last = [NoRequest EXCEPT !.op = "insert", !.key = soft.nextId,
                           !.countBefore = Cardinality(soft.rows),
                           !.countAfter = Cardinality(rows)]]
    /\ UNCHANGED <<txState, pre, tbl, flows>>

\* deleteFrom(table).where('id', '=', key).
SoftDelete ==
    /\ \E key \in 1..MaxIds :
        LET rows == RewriteDelete(soft.rows, key)
        IN  soft' = [soft EXCEPT
                !.rows = rows,
                !.deleted = IF \E r \in soft.rows : r.id = key THEN @ \cup {key} ELSE @,
                !.last = [NoRequest EXCEPT !.op = "delete", !.key = key,
                           !.countBefore = Cardinality(soft.rows),
                           !.countAfter = Cardinality(rows)]]
    /\ UNCHANGED <<txState, pre, tbl, flows>>

\* selectFrom(table).selectAll().where('id', '=', key), with the default
\* filter or as the unfiltered variant.
SoftSelect ==
    /\ \E key \in 1..MaxIds, filtered \in BOOLEAN :
        LET seen == IF filtered THEN NotDeleted(soft.rows) ELSE soft.rows
        IN  soft' = [soft EXCEPT
                !.last = [NoRequest EXCEPT
                           !.op = IF filtered THEN "select" ELSE "selectUnfiltered",
                           !.key = key,
                           !.countBefore = Cardinality(soft.rows),
                           !.countAfter = Cardinality(soft.rows),
                           !.found = {r \in seen : r.id = key}]]
    /\ UNCHANGED <<txState, pre, tbl, flows>>

\* updateTable(table).set({ name }).where('id', '=', key) with the default
\* filter; n is numUpdatedRows.
SoftUpdate ==
    /\ \E key \in 1..MaxIds, name \in Names :
        LET hit == {r \in NotDeleted(soft.rows) : r.id = key}
            rows == {IF r \in hit THEN [r EXCEPT !.name = name] ELSE r : r \in soft.rows}
        IN  soft' = [soft EXCEPT
                !.rows = rows,
                !.last = [NoRequest EXCEPT !.op = "update", !.key = key,
                           !.countBefore = Cardinality(soft.rows),
                           !.countAfter = Cardinality(rows),
                           !.n = Cardinality(hit)]]
    /\ UNCHANGED <<txState, pre, tbl, flows>>


\* ------------------------------------------- column diff of one table
ColumnOrder == <<"bool", "gender", "person">>
ColumnNames == {"bool", "gender", "person"}

Kinds == {"boolean", "int", "string"}
StorageTypes == {"INTEGER", "TEXT"}

\* The storage type a declared column kind is mapped to: boolean and
\* integer columns are stored as INTEGER, strings as TEXT.
StorageOf(kind) == IF kind = "string" THEN "TEXT" ELSE "INTEGER"

NoColumn == [type |-> "none", notNull |-> FALSE]

\* The declared columns of the table (a kind and nullability per column,
\* or no such column) and the columns the live table can have.
DesiredColumns ==
    [ColumnNames -> [kind : Kinds, notNull : BOOLEAN] \cup {[kind |-> "none", notNull |-> FALSE]}]

LiveColumns ==
    [ColumnNames -> [type : StorageTypes, notNull : BOOLEAN] \cup {NoColumn}]

\* The live shape a declared column asks for.
Wanted(d) ==
    IF d.kind = "none" THEN NoColumn ELSE [type |-> StorageOf(d.kind), notNull |-> d.notNull]

\* A column diff that leaves a column of both sides as it is, whatever its
\* storage type and nullability.
ColumnOpsNoRetype(desired, live, c) ==
    IF Wanted(desired[c]) # NoColumn /\ live[c] = NoColumn
    THEN <<[kind |-> "AddColumn", col |-> c, shape |-> Wanted(desired[c])]>>
    ELSE IF Wanted(desired[c]) = NoColumn /\ live[c] # NoColumn
    THEN <<[kind |-> "DropColumn", col |-> c, shape |-> NoColumn]>>
    ELSE <<>>

\* The changes for one column name: a column only desired is added, a
\* column only live is dropped, a column of both whose mapped storage type
\* or nullability differs is dropped and added.
ColumnOps(desired, live, c) ==
    IF Wanted(desired[c]) = live[c] THEN <<>>
    ELSE IF live[c] = NoColumn
    THEN <<[kind |-> "AddColumn", col |-> c, shape |-> Wanted(desired[c])]>>
    ELSE IF Wanted(desired[c]) = NoColumn
    THEN <<[kind |-> "DropColumn", col |-> c, shape |-> NoColumn]>>
    ELSE <<[kind |-> "DropColumn", col |-> c, shape |-> NoColumn],
           [kind |-> "AddColumn", col |-> c, shape |-> Wanted(desired[c])]>>

RECURSIVE ColumnPlanFrom(_, _, _)
ColumnPlanFrom(desired, live, k) ==
    IF k > Len(ColumnOrder) THEN <<>>
    ELSE ColumnOps(desired, live, ColumnOrder[k]) \o ColumnPlanFrom(desired, live, k + 1)

ColumnPlan(desired, live) == ColumnPlanFrom(desired, live, 1)

\* One structural statement on the live table.
ApplyColumnOp(live, op) == [live EXCEPT ![op.col] = op.shape]

TblIdle ==
    [pc |-> "idle", desired |-> [c \in ColumnNames |-> [kind |-> "none", notNull |-> FALSE]],
     before |-> [c \in ColumnNames |-> NoColumn], live |-> [c \in ColumnNames |-> NoColumn],
     plan |-> <<>>, i |-> 0]

\* A schema sync reaches a table that is both declared and live: the live
\* columns are read and the column plan is computed.
ColumnDiff ==
    /\ tbl.pc = "idle"
    /\ \E desired \in DesiredColumns, live \in LiveColumns :
        tbl' = [pc |-> "apply", desired |-> desired, before |-> live, live |-> live,
                plan |-> ColumnPlan(desired, live), i |-> 1]
    /\ UNCHANGED <<txState, pre, soft, flows>>

\* The next statement of the column plan is applied.
ColumnApply ==
    /\ tbl.pc = "apply"
    /\ tbl.i <= Len(tbl.plan)
    /\ tbl' = [tbl EXCEPT !.live = ApplyColumnOp(@, tbl.plan[tbl.i]), !.i = @ + 1]
    /\ UNCHANGED <<txState, pre, soft, flows>>

\* The column plan is applied in full.
ColumnDone ==
    /\ tbl.pc = "apply"
    /\ tbl.i > Len(tbl.plan)
    /\ tbl' = [tbl EXCEPT !.pc = "done"]
    /\ UNCHANGED <<txState, pre, soft, flows>>


\* ------------------------------------------ two flows on one builder
\* Each flow is one call of transaction(fn, options) whose fn and hooks run
\* execute(); a flow goes on at any of its await points while the other is
\* suspended at one of its own.  The call is made by the application, or by
\* the fn or a hook of the other flow, which awaits it or does not (the
\* README example calls transaction() in fn without awaiting it).
Flows == {1, 2}

\* `caller`, `site`, `awaited`: who made the call, from where, and whether
\* the caller awaits it.  `rootOpenAtCall`, `rootOpenAtSp`: the transaction of
\* this.trx was open when trxCount was incremented, when SAVEPOINT ran.
\* `spOpen`: the savepoint was created and neither RELEASE nor ROLLBACK TO
\* was issued for it yet.
NoFlow ==
    [pc |-> "idle", kind |-> "none", slotAtCall |-> 0, handle |-> 0, sp |-> 0,
     wrote |-> {}, inside |-> {}, res |-> "none", outcome |-> "pending", value |-> "none",
     rolledBack |-> FALSE, slotAfter |-> 0,
     caller |-> 0, site |-> "none", awaited |-> FALSE,
     rootOpenAtCall |-> FALSE, rootOpenAtSp |-> FALSE, spOpen |-> FALSE]

\* What the flows leave alone.
flowFrame == <<logger, calls, ncalls, stack, faults, sync, pre, soft, tbl>>

\* The flow whose root transaction holds the connection, 0 when none does:
\* kysely's transaction().execute() keeps the connection from before BEGIN
\* until after COMMIT or ROLLBACK.
ConnOwner ==
    LET H == {f \in Flows : flows[f].kind = "root" /\ flows[f].pc \in {"fn", "commit", "rollback"}}
    IN  IF H = {} THEN 0 ELSE CHOOSE f \in H : TRUE

\* Where the code of a flow can call the builder: its fn, and the bodies of
\* its hooks.
UserCode == {"fn", "inOnCommit", "inOnRollback"}

\* Flow g is at `await builder.transaction(...)`: a call it made and awaits
\* has not settled.
Suspended(g) ==
    \E f \in Flows : flows[f].caller = g /\ flows[f].awaited /\ flows[f].pc # "done"

\* transaction(fn), lines 250-254 and 273-275, up to the first await: the
\* path is chosen by this.trx, and the savepoint path increments trxCount
\* and reads this.kysely.
FlowCall(f) ==
    /\ flows[f].pc = "idle"
    /\ \E g \in {0} \cup (Flows \ {f}), aw \in BOOLEAN :
        /\ g = 0 => ~aw
        /\ g # 0 => flows[g].pc \in UserCode /\ ~Suspended(g)
        /\ LET site == IF g = 0 THEN "app" ELSE flows[g].pc
           IN  IF IsRootPath(trx)
               THEN /\ flows' = [flows EXCEPT ![f].pc = "begin", ![f].kind = "root",
                                              ![f].slotAtCall = trx,
                                              ![f].caller = g, ![f].site = site,
                                              ![f].awaited = aw]
                    /\ UNCHANGED trxCount
               ELSE /\ flows' = [flows EXCEPT ![f].pc = "savepoint", ![f].kind = "nested",
                                              ![f].slotAtCall = trx, ![f].handle = Kysely,
                                              ![f].sp = trxCount + 1,
                                              ![f].caller = g, ![f].site = site,
                                              ![f].awaited = aw,
                                              ![f].rootOpenAtCall = (ConnOwner = trx)]
                    /\ trxCount' = trxCount + 1
    /\ UNCHANGED <<flowFrame, trx, eng, nrows>>

\* Line 255 for a root-path flow: the connection is acquired when no other
\* transaction holds it, BEGIN, and the callback sets this.trx (line 256).
\* A failed BEGIN goes to execute()'s catch, which rolls back.
FlowBegin(f) ==
    /\ flows[f].pc = "begin"
    /\ ConnOwner = 0
    /\ LET r == EngBegin(eng)
       IN  /\ eng' = r.eng
           /\ trx' = IF r.ok THEN f ELSE trx
           /\ flows' = [flows EXCEPT
                ![f].pc = IF r.ok THEN "fn" ELSE "rollback",
                ![f].handle = IF r.ok THEN f ELSE @]
    /\ UNCHANGED <<flowFrame, trxCount, nrows>>

\* Line 275 for a savepoint-path flow: SAVEPOINT sp_n on the Transaction
\* read at the call.  A statement through a Transaction whose transaction
\* is over reaches the connection as it is.
FlowSavepoint(f) ==
    /\ flows[f].pc = "savepoint"
    /\ eng' = EngSavepoint(eng, flows[f].sp)
    /\ flows' = [flows EXCEPT ![f].pc = "fn", ![f].spOpen = TRUE,
                              ![f].rootOpenAtSp = (eng.inTx /\ ConnOwner = flows[f].handle)]
    /\ UNCHANGED <<flowFrame, trx, trxCount, nrows>>

\* execute() in the fn or in a hook of flow f, lines 304-310: on
\* this.kysely as it is now; through the base instance it waits for the
\* connection.  The row is noted with the flow whose root transaction it
\* was written in.
FlowExecute(f) ==
    /\ flows[f].pc \in UserCode
    /\ ~Suspended(f)
    /\ Kysely # 0 \/ ConnOwner = 0
    /\ nrows < MaxRows
    /\ nrows' = nrows + 1
    /\ eng' = EngApply(eng, [Visible(eng) EXCEPT !.rows = @ \cup {nrows + 1}])
    /\ flows' = [flows EXCEPT
            ![f].wrote = @ \cup {nrows + 1},
            ![f].inside = @ \cup {<<nrows + 1, ConnOwner>>}]
    /\ UNCHANGED <<flowFrame, trx, trxCount>>

\* fn resolves (lines 259, 277).
FlowFnReturn(f) ==
    /\ flows[f].pc = "fn"
    /\ ~Suspended(f)
    /\ \E r \in Results :
        flows' = [flows EXCEPT
            ![f].res = r,
            ![f].pc = IF flows[f].kind = "root" THEN "commit" ELSE "release"]
    /\ UNCHANGED <<flowFrame, trx, trxCount, eng, nrows>>

\* fn rejects (lines 259, 277).
FlowFnThrow(f) ==
    /\ flows[f].pc = "fn"
    /\ ~Suspended(f)
    /\ flows' = [flows EXCEPT ![f].pc = AfterFnThrow(flows[f].kind)]
    /\ UNCHANGED <<flowFrame, trx, trxCount, eng, nrows>>

\* COMMIT of a root-path flow; a failed COMMIT goes to execute()'s catch.
FlowCommit(f) ==
    /\ flows[f].pc = "commit"
    /\ LET r == EngCommit(eng)
       IN  /\ eng' = r.eng
           /\ flows' = [flows EXCEPT ![f].pc = IF r.ok THEN "onCommit" ELSE "rollback"]
    /\ UNCHANGED <<flowFrame, trx, trxCount, nrows>>

\* ROLLBACK of a root-path flow in execute()'s catch, which rethrows into
\* the catch-handler of lines 265-269.
FlowRollback(f) ==
    /\ flows[f].pc = "rollback"
    /\ LET r == EngRollback(eng)
       IN  /\ eng' = r.eng
           /\ flows' = [flows EXCEPT ![f].pc = "onRollback", ![f].rolledBack = r.ok]
    /\ UNCHANGED <<flowFrame, trx, trxCount, nrows>>

\* `await release()` of a savepoint-path flow, line 279.
FlowRelease(f) ==
    /\ flows[f].pc = "release"
    /\ LET r == EngRelease(eng, flows[f].sp)
       IN  /\ eng' = r.eng
           /\ flows' = [flows EXCEPT
                ![f].pc = IF r.ok THEN "onCommit" ELSE "rollbackTo",
                ![f].spOpen = FALSE]
    /\ UNCHANGED <<flowFrame, trx, trxCount, nrows>>

\* `await rollback()` of a savepoint-path flow, line 284; when it throws,
\* the catch-handler rejects.
FlowRollbackTo(f) ==
    /\ flows[f].pc = "rollbackTo"
    /\ LET r == EngRollbackTo(eng, flows[f].sp)
       IN  /\ eng' = r.eng
           /\ flows' = [flows EXCEPT
                ![f].pc = IF r.ok THEN "onRollback" ELSE "finally",
                ![f].spOpen = FALSE,
                ![f].outcome = IF r.ok THEN @ ELSE "rejected",
                ![f].value = IF r.ok THEN @ ELSE "eRollbackTo"]
    /\ UNCHANGED <<flowFrame, trx, trxCount, nrows>>

\* `await options.onCommit?.(result); return result`, lines 262-263 and
\* 280-281: a hook that was given starts to run.
FlowThenHook(f) ==
    /\ flows[f].pc = "onCommit"
    /\ \E given \in BOOLEAN :
        flows' = [flows EXCEPT
            ![f].pc = IF given THEN "inOnCommit" ELSE "finally",
            ![f].outcome = IF given THEN @ ELSE "resolved",
            ![f].value = IF given THEN @ ELSE flows[f].res]
    /\ UNCHANGED <<flowFrame, trx, trxCount, eng, nrows>>

\* `await options.onRollback?.(e); ...; return undefined`, lines 266-268 and
\* 285-287: a hook that was given starts to run.
FlowCatchHook(f) ==
    /\ flows[f].pc = "onRollback"
    /\ \E given \in BOOLEAN :
        flows' = [flows EXCEPT
            ![f].pc = IF given THEN "inOnRollback" ELSE "finally",
            ![f].outcome = IF given THEN @ ELSE CatchOutcome("absent"),
            ![f].value = IF given THEN @ ELSE "undefined"]
    /\ UNCHANGED <<flowFrame, trx, trxCount, eng, nrows>>

\* The hook that is running returns: the handler goes on to its `return`.
FlowHookReturn(f) ==
    /\ flows[f].pc \in {"inOnCommit", "inOnRollback"}
    /\ ~Suspended(f)
    /\ flows' = [flows EXCEPT
            ![f].pc = "finally",
            ![f].outcome = IF flows[f].pc = "inOnCommit" THEN "resolved"
                           ELSE CatchOutcome("returns"),
            ![f].value = IF flows[f].pc = "inOnCommit" THEN flows[f].res ELSE "undefined"]
    /\ UNCHANGED <<flowFrame, trx, trxCount, eng, nrows>>

\* The hook that is running throws: out of the then-handler into the
\* catch-handler that follows it, out of the catch-handler as a rejection.
FlowHookThrow(f) ==
    /\ flows[f].pc \in {"inOnCommit", "inOnRollback"}
    /\ ~Suspended(f)
    /\ flows' = [flows EXCEPT
            ![f].pc = IF flows[f].pc = "inOnCommit" THEN AfterThenThrow(flows[f].kind)
                      ELSE "finally",
            ![f].outcome = IF flows[f].pc = "inOnCommit" THEN @ ELSE CatchOutcome("throws"),
            ![f].value = IF flows[f].pc = "inOnCommit" THEN @ ELSE "eOnRollback"]
    /\ UNCHANGED <<flowFrame, trx, trxCount, eng, nrows>>

\* The finally-handlers, lines 270 and 289; the promise of the call settles.
FlowFinally(f) ==
    /\ flows[f].pc = "finally"
    /\ trx' = IF flows[f].kind = "root" THEN FinallyTrx(trx) ELSE trx
    /\ trxCount' = IF flows[f].kind = "nested" THEN FinallyCount(trxCount) ELSE trxCount
    /\ flows' = [flows EXCEPT
            ![f].pc = "done",
            ![f].slotAfter = IF flows[f].kind = "root" THEN FinallyTrx(trx) ELSE trx]
    /\ UNCHANGED <<flowFrame, eng, nrows>>


\* ------------------------------------------------------------ properties
Has(rec, op, arg) == \E i \in 1..Len(rec.ev) : rec.ev[i] = Ev(op, arg)

Count(rec, op) == Cardinality({i \in 1..Len(rec.ev) : rec.ev[i].op = op})

\* Event (op1, arg1) occurs, and before every event op2.
Before(rec, op1, arg1, op2) ==
    \E i \in 1..Len(rec.ev) :
        /\ rec.ev[i] = Ev(op1, arg1)
        /\ \A j \in 1..Len(rec.ev) : rec.ev[j].op = op2 => i < j

\* The calls that have just settled.
DoneCalls == {c \in 1..Len(calls) : calls[c].pc = "done"}

\* The statement that closes a call's scope with success / with failure.
CloseOp(rec) == IF rec.kind = "root" THEN "commit" ELSE "release"

UndoOp(rec) == IF rec.kind = "root" THEN "rollback" ELSE "rollbackTo"

\* C1: a transaction() call made while this.trx was unset leaves this.trx
\* unset once it has settled (the builder is Idle again: no call in flight,
\* slot cleared), whatever the outcome: fn returned, fn threw, BEGIN or
\* COMMIT failed, or a hook threw.
C1_RootSettlesIdle ==
    \A c \in DoneCalls :
        calls[c].slotAtCall = 0 =>
            /\ calls[c].slotAfter = 0
            /\ trx = 0
            /\ stack = <<>>

\* A root call whose COMMIT failed and whose onRollback hook then threw has
\* settled (rejected).
C1_Witness ==
    \E c \in DoneCalls :
        /\ calls[c].slotAtCall = 0
        /\ Has(calls[c], "commit", "fail")
        /\ calls[c].outcome = "rejected"

C3_SavepointNesting ==
    /\ \A c \in DoneCalls :
        calls[c].kind = "nested" /\ FnThrew(calls[c]) =>
            /\ calls[c].visAfter = calls[c].snap
            /\ Visible(eng).rows = calls[c].snap
            /\ calls[c].wrote \cap calls[c].visAfter = {}
            /\ c > 1 => calls[c - 1].wrote \cap calls[c].snap \subseteq calls[c].visAfter
            /\ calls[c].onRollback # "throws" =>
                calls[c].outcome = "resolved" /\ calls[c].value = "undefined"
    /\ \A c \in DoneCalls :
        calls[c].kind = "root" /\ Has(calls[c], "commit", "ok") =>
            /\ calls[c].kept \subseteq eng.db.rows
            /\ calls[c].kept \subseteq calls[c].visAfter

\* A root has committed: a row it wrote before a nested call whose fn threw
\* is in the database, and a row written later is not.
C3_Witness ==
    \E c \in DoneCalls :
        /\ calls[c].kind = "root"
        /\ Has(calls[c], "commit", "ok")
        /\ calls[c].kept # {}
        /\ \E r \in 1..nrows : r \notin eng.db.rows

\* C4: when the fn of a transaction() call (root or nested) throws e and the
\* onRollback hook does not throw, the scope is rolled back (ROLLBACK of the
\* root, ROLLBACK TO the call's savepoint), then onRollback (when given) is
\* invoked once with e, and the call resolves to undefined.
C4_FnThrowRollsBack ==
    \A c \in DoneCalls :
        FnThrew(calls[c]) /\ calls[c].onRollback # "throws" =>
            /\ Has(calls[c], UndoOp(calls[c]), "ok")
            /\ calls[c].visAfter = calls[c].snap
            /\ calls[c].kind = "root" => ~eng.inTx
            /\ calls[c].onRollback = "returns" =>
                /\ Count(calls[c], "onRollback") = 1
                /\ Has(calls[c], "onRollback", "eFn")
                /\ Before(calls[c], UndoOp(calls[c]), "ok", "onRollback")
            /\ calls[c].onRollback = "absent" => Count(calls[c], "onRollback") = 0
            /\ Count(calls[c], "onCommit") = 0
            /\ calls[c].outcome = "resolved"
            /\ calls[c].value = "undefined"

\* A nested call whose fn threw after writing a row has run its onRollback
\* hook and settled.
C4_Witness ==
    \E c \in DoneCalls :
        /\ calls[c].kind = "nested"
        /\ FnThrew(calls[c])
        /\ calls[c].wrote # {}
        /\ calls[c].onRollback = "returns"

\* The parts of C5 about the hook and the result: when fn returns r, the
\* COMMIT or RELEASE succeeds and onCommit does not throw, onCommit (when
\* given) is invoked once with r, after the COMMIT or RELEASE, and the call
\* resolves to r.
C5_HookAndResult ==
    \A c \in DoneCalls :
        /\ Has(calls[c], "fn", calls[c].res)
        /\ Has(calls[c], CloseOp(calls[c]), "ok")
        /\ calls[c].onCommit # "throws"
        => /\ calls[c].onCommit = "returns" =>
                /\ Count(calls[c], "onCommit") = 1
                /\ Has(calls[c], "onCommit", calls[c].res)
                /\ Before(calls[c], CloseOp(calls[c]), "ok", "onCommit")
           /\ calls[c].outcome = "resolved"
           /\ calls[c].value = calls[c].res

\* C5: when fn returns r, the COMMIT or RELEASE succeeds and onCommit does
\* not throw: onCommit is invoked once with r after the COMMIT or RELEASE,
\* the call resolves to r, and the rows fn wrote are visible to a query
\* issued after the call has resolved.
C5_CommitVisible ==
    /\ C5_HookAndResult
    /\ \A c \in DoneCalls :
        /\ Has(calls[c], "fn", calls[c].res)
        /\ Has(calls[c], CloseOp(calls[c]), "ok")
        /\ calls[c].onCommit # "throws"
        => calls[c].wrote \subseteq calls[c].visAfter

\* C6: a nested call leaves trxCount, once settled, at its value just before
\* the call, whatever the outcome.
C6_CounterRestored ==
    \A c \in DoneCalls :
        calls[c].kind = "nested" => calls[c].cntAfter = calls[c].cntBefore

\* C7: an exception thrown by the onCommit hook or by the onRollback hook is
\* not swallowed: the call rejects with it.
C7_HookThrowRejects ==
    \A c \in DoneCalls :
        /\ calls[c].onRollback = "throws" =>
            calls[c].outcome = "rejected" /\ calls[c].value = "eOnRollback"
        /\ calls[c].onCommit = "throws" /\ calls[c].onRollback # "throws" =>
            calls[c].outcome = "rejected" /\ calls[c].value = "eOnCommit"

\* A failure was captured: the call ran its catch-handler to `return
\* undefined`.
Captured(rec) == rec.pc = "done" /\ rec.outcome = "resolved" /\ rec.value = "undefined"

StatusResults == [ready : BOOLEAN, error : {"none", "IntegrityError", "eIntegrityCheck", "eUpdater",
                                            "eNotReady", "eBegin", "eCommit", "DdlApplyError"}]

\* C9: syncDB never rejects: whatever the updater and the integrity check
\* do (throwing included) the call resolves to a StatusResult; a failure
\* that was caught is returned as { ready: false, error } with that very
\* error, and logged at error level on the builder's logger.
C9_SyncNeverRejects ==
    /\ sync.settled # "rejected"
    /\ sync.pc = "catch" => sync.caught # "none"
    /\ sync.pc = "done" =>
        /\ sync.settled = "resolved"
        /\ sync.result \in StatusResults
        /\ sync.caught # "none" =>
            /\ sync.result = [ready |-> FALSE, error |-> sync.caught]
            /\ logger => Has(sync, "logger.error", sync.caught)
        /\ Has(sync, "integrity", "fails") =>
            /\ sync.result = [ready |-> FALSE, error |-> "IntegrityError"]
            /\ logger => Has(sync, "logger.error", "integrity check fail")

\* An updater threw, on a builder with a logger, and syncDB has resolved.
C9_Witness ==
    /\ sync.pc = "done"
    /\ sync.caught = "eUpdater"
    /\ logger

\* C10: a schema sync is all or nothing: when a structural statement of the
\* plan fails part-way, what was changed in that call is rolled back, the
\* live tables are those before the call, the call reports ready: false,
\* the plan is not tried again, and after any schema sync the live tables
\* are either those before the call or the desired ones.
C10_SyncAllOrNothing ==
    sync.pc = "done" /\ sync.updater = "useSchema" =>
        /\ Has(sync, "ddl", "fail") =>
            /\ eng.db.tabs = sync.before
            /\ Visible(eng).tabs = sync.before
            /\ ~eng.inTx
            /\ sync.result = [ready |-> FALSE, error |-> "DdlApplyError"]
            /\ Count(sync, "begin") = 1
            /\ Count(sync, "commit") = 0
            /\ sync.ev[Len(sync.ev)].op \in {"rollback", "logger.info"}
            /\ \A i \in 1..Len(sync.ev) : \A j \in 1..Len(sync.ev) :
                 sync.ev[i] = Ev("ddl", "fail") /\ i < j => sync.ev[j].op # "ddl"
        /\ Visible(eng).tabs \in {sync.before, sync.desired}
        /\ sync.result.ready => Visible(eng).tabs = sync.desired
        /\ ~sync.result.ready => Visible(eng).tabs = sync.before

\* The second statement of a two-statement plan failed, after the first had
\* changed the tables.
C10_Witness ==
    /\ sync.pc = "done"
    /\ sync.updater = "useSchema"
    /\ Len(sync.plan) = 2
    /\ Has(sync, "ddl", "ok")
    /\ Has(sync, "ddl", "fail")

\* Invocations of the updater by the syncDB call: the updater of the
\* application is entered, or useSchema opens its transaction.
UpdaterCalls == Count(sync, "updater") + Count(sync, "begin")

\* C11: when syncDB is called with the integrity check requested and the
\* check reports failure, the updater is never invoked, no structural
\* statement is issued, the live tables are untouched and the call resolves
\* to { ready: false, error: IntegrityError }; when the check is not
\* requested or passes, the updater is invoked exactly once, and the check
\* is run only when requested.
C11_IntegrityGate ==
    /\ Has(sync, "integrity", "fails") =>
        /\ sync.pc = "done"
        /\ sync.checkIntegrity
        /\ UpdaterCalls = 0
        /\ Count(sync, "ddl") = 0
        /\ Visible(eng).tabs = sync.before
        /\ sync.result = [ready |-> FALSE, error |-> "IntegrityError"]
        /\ sync.settled = "resolved"
    /\ sync.pc = "done" /\ (~sync.checkIntegrity \/ Has(sync, "integrity", "passes")) =>
        UpdaterCalls = 1
    /\ UpdaterCalls <= 1
    /\ ~sync.checkIntegrity => Count(sync, "integrity") = 0
    /\ sync.checkIntegrity /\ sync.pc \notin {"idle", "integrity"} => Count(sync, "integrity") = 1

\* The check failed for a schema sync that had tables to create, and the
\* call has resolved.
C11_Witness ==
    /\ sync.pc = "done"
    /\ Has(sync, "integrity", "fails")
    /\ sync.updater = "useSchema"
    /\ sync.desired # sync.before

\* The calls made on the handle so far, and whether a dispose() lies
\* strictly between two of them.
PreOps == 1..Len(pre.log)

IsCompile(i) == pre.log[i].op = "compile"

DisposeBetween(i, j) ==
    \E k \in PreOps : i < k /\ k < j /\ pre.log[k].op = "dispose"

\* C12: for one handle of precompile().build(queryConstructor): build does
\* not invoke the query constructor, the first compile() invokes it exactly
\* once, and over further compile() calls with no dispose() in between it
\* is not invoked again.
C12_ConstructedOnce ==
    /\ ~pre.built => pre.ncons = 0
    /\ pre.built /\ pre.log = <<>> => pre.ncons = 0 /\ ~pre.compiled.set
    /\ pre.log # <<>> => pre.ncons = pre.log[Len(pre.log)].ncons
    /\ \A i \in PreOps :
        (\A j \in 1..(i - 1) : ~IsCompile(j)) =>
            pre.log[i].ncons = IF IsCompile(i) THEN 1 ELSE 0
    /\ \A i \in PreOps : \A j \in PreOps :
        i < j /\ IsCompile(i) /\ IsCompile(j) /\ ~DisposeBetween(i, j) =>
            pre.log[j].ncons = pre.log[i].ncons

\* Three compile() calls in a row, with different parameter objects, on a
\* handle whose query has a named parameter.
C12_Witness ==
    /\ Len(pre.log) = 3
    /\ \A i \in PreOps : IsCompile(i)
    /\ pre.log[1].param # pre.log[2].param
    /\ pre.log[2].param # pre.log[3].param
    /\ \E i \in 1..Len(pre.qc) : pre.qc[i].kind = "param"
    /\ pre.ncons = 1

\* The name slot k of the handle's query is bound to, when the constructor
\* put param(name) there.
BoundToName(k) == pre.qc[k].kind = "param"

SameEntry(i, j) ==
    i < j /\ IsCompile(i) /\ IsCompile(j) /\ ~DisposeBetween(i, j)

\* The part of C13 that holds: two compile() calls with no dispose() between
\* them return the same SQL text and parameter lists of the same length,
\* and what a call returns is determined by its own parameter object.
C13_SameSqlSameLength ==
    \A i \in PreOps : \A j \in PreOps :
        SameEntry(i, j) =>
            /\ pre.log[i].result.sql = pre.log[j].result.sql
            /\ Len(pre.log[i].result.parameters) = Len(pre.log[j].result.parameters)
            /\ pre.log[i].param = pre.log[j].param => pre.log[i].result = pre.log[j].result

\* C13: for two compile() calls on the same handle with parameter objects
\* p1 and p2 and no dispose() between them, the SQL text is identical, the
\* parameter lists have the same length and slot order, the lists differ
\* only at slots bound to a named parameter, and each such slot holds the
\* serialized value of that name from its own call's object.
C13_DifferOnlyAtNamedSlots ==
    \A i \in PreOps : \A j \in PreOps :
        SameEntry(i, j) =>
            /\ pre.log[i].result.sql = pre.log[j].result.sql
            /\ Len(pre.log[i].result.parameters) = Len(pre.qc)
            /\ Len(pre.log[j].result.parameters) = Len(pre.qc)
            /\ \A k \in 1..Len(pre.qc) :
                /\ pre.log[i].result.parameters[k] # pre.log[j].result.parameters[k]
                     => BoundToName(k)
                /\ BoundToName(k) =>
                    /\ pre.log[i].result.parameters[k]
                         = Serialize(Lookup(pre.log[i].param, pre.qc[k].name))
                    /\ pre.log[j].result.parameters[k]
                         = Serialize(Lookup(pre.log[j].param, pre.qc[k].name))

\* C14: after dispose() the cached entry is gone: the call itself invokes
\* nothing, the next compile() invokes the query constructor again and
\* captures SQL text and slots anew, later compile() calls reuse that
\* entry, and several dispose() calls in a row act as one.
C14_DisposeRebuilds ==
    /\ pre.log # <<>> /\ ~IsCompile(Len(pre.log)) => pre.compiled = NoEntry
    /\ pre.log # <<>> /\ IsCompile(Len(pre.log)) =>
        pre.compiled = [set |-> TRUE, sql |-> SqlOf(pre.qc), parameters |-> Capture(pre.qc)]
    /\ \A i \in PreOps :
        LET before == IF i = 1 THEN 0 ELSE pre.log[i - 1].ncons
        IN  /\ ~IsCompile(i) => pre.log[i].ncons = before
            /\ IsCompile(i) /\ i > 1 /\ ~IsCompile(i - 1) => pre.log[i].ncons = before + 1
            /\ IsCompile(i) /\ i > 1 /\ IsCompile(i - 1) => pre.log[i].ncons = before
            /\ IsCompile(i) => pre.log[i].result.sql = SqlOf(pre.qc)

\* compile(), dispose() twice, compile(): the constructor ran twice.
C14_Witness ==
    /\ Len(pre.log) = 4
    /\ IsCompile(1) /\ ~IsCompile(2) /\ ~IsCompile(3) /\ IsCompile(4)
    /\ pre.qc # <<>>
    /\ pre.ncons = 2

\* The tokens param() generated while the handle's query was constructed.
GeneratedTokens ==
    {Token(pre.qc[k].name) : k \in {n \in 1..Len(pre.qc) : BoundToName(n)}}

\* The part of C15 that holds: a slot captured from the token of a name
\* that is not empty holds the serialized value of that name, and a captured
\* value that does not start with the token prefix is returned unchanged.
C15_NonEmptyNames ==
    \A i \in PreOps : IsCompile(i) =>
        \A k \in 1..Len(pre.qc) :
            /\ BoundToName(k) /\ pre.qc[k].name # <<>> =>
                pre.log[i].result.parameters[k]
                    = Serialize(Lookup(pre.log[i].param, pre.qc[k].name))
            /\ ~StartsWithPre(Capture(pre.qc)[k]) =>
                pre.log[i].result.parameters[k] = Capture(pre.qc)[k]

\* C15: in every compile() result a captured value that is not a token
\* generated for a name passed to param() during construction is returned
\* unchanged, and every slot captured from the token of a name k holds
\* serialize(params[k]), for every string name k.
C15_OnlyTokensReplaced ==
    \A i \in PreOps : IsCompile(i) =>
        \A k \in 1..Len(pre.qc) :
            /\ Capture(pre.qc)[k] \notin GeneratedTokens =>
                pre.log[i].result.parameters[k] = Capture(pre.qc)[k]
            /\ BoundToName(k) =>
                pre.log[i].result.parameters[k]
                    = Serialize(Lookup(pre.log[i].param, pre.qc[k].name))

\* C16: for a table declared with softDelete behind the soft-delete
\* executor: a delete never reduces the unfiltered row count, it sets the
\* deleted flag of the row; a default (filtered) select issued afterwards
\* returns no row for that key, and a default (filtered) update addressed
\* to that key updates zero rows; the unfiltered select still finds it.
C16_SoftDelete ==
    /\ soft.last.op = "delete" =>
        /\ soft.last.countAfter = soft.last.countBefore
        /\ \A r \in soft.rows : r.id = soft.last.key => r.isDeleted = 1
    /\ Cardinality(soft.rows) = soft.nextId - 1
    /\ \A k \in soft.deleted :
        /\ \E r \in soft.rows : r.id = k
        /\ soft.last.op = "select" /\ soft.last.key = k => soft.last.found = {}
        /\ soft.last.op = "update" /\ soft.last.key = k =>
            soft.last.n = 0 /\ soft.last.countAfter = soft.last.countBefore
        /\ soft.last.op = "selectUnfiltered" /\ soft.last.key = k =>
            Cardinality(soft.last.found) = 1

\* A filtered update addressed to the key of a deleted row, with another,
\* live row in the table.
C16_Witness ==
    /\ soft.last.op = "update"
    /\ soft.last.key \in soft.deleted
    /\ soft.last.n = 0
    /\ \E r \in soft.rows : r.isDeleted = 0

\* A schema sync that has resolved with ready: true.
SchemaSynced ==
    /\ sync.pc = "done"
    /\ sync.updater = "useSchema"
    /\ sync.result.ready

\* C17: a schema sync with an empty desired-table set, from any live
\* state, leaves the live database with zero tables: the plan drops every
\* table that is only in the live database, and nothing else.
C17_EmptyDropsAll ==
    SchemaSynced /\ sync.desired = {} =>
        /\ Visible(eng).tabs = {}
        /\ eng.db.tabs = {}
        /\ Len(Introspect(eng.db.tabs)) = 0
        /\ Len(sync.plan) = Cardinality(sync.before)
        /\ \A t \in sync.before :
            \E i \in 1..Len(sync.plan) : sync.plan[i] = [kind |-> "DropTable", tab |-> t]

\* A sync with no desired table has dropped the two tables that were live.
C17_Witness ==
    /\ SchemaSynced
    /\ sync.desired = {}
    /\ Cardinality(sync.before) = 2
    /\ Count(sync, "ddl") = 2

\* The name order of the tables: blob, foo, test.
NameBefore(a, b) ==
    <<a, b>> \in {<<"blob", "foo">>, <<"blob", "test">>, <<"foo", "test">>}

\* C18: a schema sync whose desired set is the live, already synced
\* baseline plus one new table raises the live table count by exactly one
\* and keeps every baseline table, and the introspected table list is
\* ordered by table name.
C18_CreateOne ==
    SchemaSynced /\ sync.before \subseteq sync.desired
                 /\ Cardinality(sync.desired \ sync.before) = 1 =>
        LET list == Introspect(Visible(eng).tabs)
        IN  /\ Len(list) = Cardinality(sync.before) + 1
            /\ Cardinality(eng.db.tabs) = Cardinality(sync.before) + 1
            /\ \A t \in sync.before : \E i \in 1..Len(list) : list[i] = t
            /\ \A t \in sync.desired \ sync.before : \E i \in 1..Len(list) : list[i] = t
            /\ \A i \in 1..Len(list) : \A j \in 1..Len(list) :
                 i < j => NameBefore(list[i], list[j])
            /\ Len(sync.plan) = 1 /\ sync.plan[1].kind = "CreateTable"

\* The baseline blob, test was live and foo was added: blob, foo, test.
C18_Witness ==
    /\ SchemaSynced
    /\ sync.before = {"blob", "test"}
    /\ sync.desired = {"blob", "foo", "test"}
    /\ Introspect(eng.db.tabs) = <<"blob", "foo", "test">>

\* C19: after syncing a table that is both declared and live, the live
\* column set equals the declared one: every column only in the live table
\* is gone, every column only in the declared table exists with its mapped
\* storage type, and every column of both whose mapped storage type or
\* nullability differed has the declared storage type and nullability.
C19_ColumnsMatch ==
    tbl.pc = "done" =>
        /\ {c \in ColumnNames : tbl.live[c] # NoColumn}
             = {c \in ColumnNames : tbl.desired[c].kind # "none"}
        /\ \A c \in ColumnNames :
            /\ tbl.desired[c].kind = "none" => tbl.live[c] = NoColumn
            /\ tbl.desired[c].kind # "none" =>
                /\ tbl.live[c].type = StorageOf(tbl.desired[c].kind)
                /\ tbl.live[c].notNull = tbl.desired[c].notNull
            /\ tbl.before[c] = Wanted(tbl.desired[c]) =>
                \A i \in 1..Len(tbl.plan) : tbl.plan[i].col # c

\* person was stored as TEXT and is declared int, gender was live and is
\* not declared, bool is declared and was not live.
C19_Witness ==
    /\ tbl.pc = "done"
    /\ tbl.before["person"].type = "TEXT" /\ tbl.desired["person"].kind = "int"
    /\ tbl.before["gender"] # NoColumn /\ tbl.desired["gender"].kind = "none"
    /\ tbl.before["bool"] = NoColumn /\ tbl.desired["bool"].kind = "boolean"
    /\ tbl.live["person"].type = "INTEGER"

C20_SlotClearedWhileOpen ==
    \E f \in Flows : \E g \in Flows \ {f} :
        /\ flows[f].pc = "done" /\ flows[f].kind = "root"
        /\ flows[g].pc = "fn" /\ flows[g].kind = "root"
        /\ eng.inTx
        /\ trx = 0

\* C21: in every reachable state in which no root transaction is active
\* (this.trx is unset) the savepoint counter is zero: it is back at zero each
\* time a root transaction closes, after any sequence of root and nested
\* calls with any outcomes, and after destroy().
C21_CounterZeroWhenIdle ==
    trx = 0 => trxCount = 0

\* The builder was destroyed after a root transaction closed, and the
\* counter is not zero.
C21_DestroyedWithCount ==
    eng.closed /\ trx = 0 /\ trxCount # 0

\* The part of C22 about onCommit: the hook is invoked only after the COMMIT
\* or RELEASE of the call succeeded, and at most once.
C22_OnCommitAfterClose ==
    \A c \in 1..Len(calls) :
        Count(calls[c], "onCommit") > 0 =>
            /\ Count(calls[c], "onCommit") = 1
            /\ Before(calls[c], CloseOp(calls[c]), "ok", "onCommit")

\* C22: for one transaction() call the two hooks are mutually exclusive and
\* match the outcome of the scope: onCommit is invoked only if the scope was
\* committed or released, onRollback only if it was rolled back (the
\* ROLLBACK or ROLLBACK TO was issued, and no COMMIT or RELEASE had
\* succeeded), and never both in the same call, also when onCommit itself
\* throws.
C22_HooksExclusive ==
    /\ C22_OnCommitAfterClose
    /\ \A c \in 1..Len(calls) :
        /\ Count(calls[c], "onRollback") > 0 =>
            /\ Count(calls[c], UndoOp(calls[c])) > 0
            /\ ~Has(calls[c], CloseOp(calls[c]), "ok")
        /\ ~(Count(calls[c], "onCommit") > 0 /\ Count(calls[c], "onRollback") > 0)

\* A root call has committed, its onCommit hook threw, and its onRollback
\* hook was invoked with that exception.
C22_BothHooks ==
    \E c \in 1..Len(calls) :
        /\ calls[c].kind = "root"
        /\ Has(calls[c], "commit", "ok")
        /\ Has(calls[c], "onCommit", calls[c].res)
        /\ Has(calls[c], "onRollback", "eOnCommit")

\* The nested calls whose savepoint was created.
WithSavepoint == {c \in 1..Len(calls) : calls[c].kind = "nested" /\ Has(calls[c], "savepoint", "ok")}

\* The part of C23 that does not depend on how RELEASE or the onCommit hook
\* end: RELEASE is issued only when fn returned and first, ROLLBACK TO
\* first only when fn threw, each at most once, and a call that has
\* settled has issued at least one of them.
C23_CloseIssued ==
    \A c \in WithSavepoint :
        /\ Count(calls[c], "release") <= 1
        /\ Count(calls[c], "rollbackTo") <= 1
        /\ Count(calls[c], "release") > 0 => Has(calls[c], "fn", calls[c].res)
        /\ FnThrew(calls[c]) => Count(calls[c], "release") = 0
        /\ calls[c].pc = "done" =>
            Count(calls[c], "release") + Count(calls[c], "rollbackTo") >= 1

\* C23: for every savepoint a nested transaction() call created, exactly
\* one of RELEASE and ROLLBACK TO is issued, never both: RELEASE if fn
\* returned, ROLLBACK TO if fn threw; no ROLLBACK TO is issued for a
\* savepoint for which RELEASE was issued (when RELEASE failed, or when
\* onCommit threw after it).
C23_ReleaseXorRollback ==
    /\ C23_CloseIssued
    /\ \A c \in WithSavepoint :
        /\ ~(Count(calls[c], "release") > 0 /\ Count(calls[c], "rollbackTo") > 0)
        /\ Count(calls[c], "rollbackTo") > 0 => FnThrew(calls[c])
        /\ calls[c].pc = "done" =>
            Count(calls[c], "release") + Count(calls[c], "rollbackTo") = 1

\* A nested call released its savepoint, its onCommit hook threw, and
\* ROLLBACK TO was issued for the savepoint that no longer exists.
C23_RollbackAfterRelease ==
    \E c \in WithSavepoint :
        /\ Has(calls[c], "release", "ok")
        /\ calls[c].onCommit = "throws"
        /\ Has(calls[c], "rollbackTo", "fail")

\* The nested calls in flight whose savepoint is open: created, and neither
\* RELEASE nor ROLLBACK TO issued for it yet.
OpenSavepoints ==
    {c \in 1..Len(stack) :
        /\ calls[c].kind = "nested"
        /\ Has(calls[c], "savepoint", "ok")
        /\ Count(calls[c], "release") + Count(calls[c], "rollbackTo") = 0}

\* The nesting depth of call c in flight: the nested calls from the root
\* call down to c.
Depth(c) == Cardinality({d \in 1..c : calls[d].kind = "nested"})

\* The part of C24 about distinct names: the savepoints that are open at
\* one moment have pairwise distinct names.
C24_OpenNamesDistinct ==
    \A c \in OpenSavepoints : \A d \in OpenSavepoints :
        c # d => calls[c].sp # calls[d].sp

\* C24: under sequential use the savepoint created at nesting depth n is
\* named sp_n, and at every moment the names of the savepoints created and
\* not yet released or rolled back are pairwise distinct.
C24_NamedByDepth ==
    /\ C24_OpenNamesDistinct
    /\ \A c \in OpenSavepoints : calls[c].sp = Depth(c)

\* While no statement has failed for an outside reason, the open savepoints
\* are named by their depth.
C24_NamedByDepthNoFault ==
    faults = 0 => \A c \in OpenSavepoints : calls[c].sp = Depth(c)

\* C25: a statement issued through the builder runs on the root Transaction
\* exactly when this.trx is set and on the base instance otherwise; at every
\* savepoint depth it is the one Transaction of the root call, the handle
\* the fn of every call in flight got; and the connection runs the
\* statements in the order they were issued.
C25_OneHandle ==
    /\ \A i \in 1..Len(eng.log) :
        LET s == eng.log[i]
        IN  /\ s.slot # 0 => s.via = s.slot
            /\ s.slot = 0 => s.via = 0
            /\ s.depth > 0 => s.via # 0
            /\ \A j \in 1..Len(eng.log) : i < j => s.row < eng.log[j].row
    /\ \A c \in 1..Len(calls) : \A i \in 1..Len(eng.log) :
        eng.log[i].row \in calls[c].wrote =>
            /\ eng.log[i].via = calls[c].handle
            /\ eng.log[i].via = calls[1].handle
            /\ eng.log[i].depth = c

\* One statement ran in the fn of the root call and a later one in the fn
\* of a call nested in it, both through the Transaction of the root call.
C25_Witness ==
    /\ Len(eng.log) = 2
    /\ eng.log[1].via = 1 /\ eng.log[1].depth = 1
    /\ eng.log[2].via = 1 /\ eng.log[2].depth = 2
    /\ Len(calls) >= 2 /\ eng.log[2].row \in calls[2].wrote

\* A statement issued at top level ran on the base instance.
C25_BaseAtTopLevel ==
    /\ Len(eng.log) = 1
    /\ eng.log[1].via = 0 /\ eng.log[1].slot = 0 /\ eng.log[1].depth = 0
    /\ eng.log[1].row \in eng.db.rows

\* C26: whenever this.trx is set, the transaction it refers to is still
\* open (begun, neither committed nor rolled back); so trxCount is
\* incremented, and a savepoint created, only while a root transaction is
\* open, also for the calls made from inside the onCommit or onRollback
\* hook of the root call.
C26_SlotMeansOpen ==
    /\ trx # 0 => ConnOwner = trx /\ eng.inTx
    /\ \A f \in Flows :
        flows[f].kind = "nested" =>
            /\ flows[f].rootOpenAtCall
            /\ flows[f].pc # "savepoint" => flows[f].rootOpenAtSp

\* The onCommit hook of the root call of flow g, which has committed, called
\* transaction(): the call took the savepoint path, trxCount is 1, and its
\* SAVEPOINT sp_1 opened a transaction of its own on the connection.
C26_SavepointFromHook ==
    \E g \in Flows : \E f \in Flows \ {g} :
        /\ flows[g].kind = "root" /\ flows[g].pc = "inOnCommit"
        /\ flows[f].caller = g /\ flows[f].site = "inOnCommit"
        /\ flows[f].kind = "nested" /\ flows[f].pc = "fn"
        /\ ~flows[f].rootOpenAtCall /\ ~flows[f].rootOpenAtSp
        /\ trx = g /\ trxCount = 1
        /\ eng.inTx /\ eng.auto

\* A statement issued from inside the onRollback hook of a root call went
\* through this.trx although the transaction was rolled back: it was
\* committed at once.
C26_QueryFromHook ==
    \E g \in Flows :
        /\ flows[g].kind = "root" /\ flows[g].pc = "inOnRollback"
        /\ flows[g].rolledBack
        /\ trx = g
        /\ \E w \in flows[g].inside : w[2] = 0 /\ w[1] \in eng.db.rows

\* The root transaction of flow g is open and in the slot: COMMIT or
\* ROLLBACK has not run yet.
RootOpen(g) ==
    /\ flows[g].kind = "root"
    /\ flows[g].pc \in {"fn", "commit", "rollback"}
    /\ trx = g
    /\ eng.inTx /\ ~eng.auto

\* The part of C27 for a nested call that the enclosing fn awaits: while
\* its savepoint is open, the root transaction is open and in the slot.
C27_AwaitedClosedBeforeRoot ==
    \A f \in Flows :
        flows[f].spOpen /\ flows[f].site = "fn" /\ flows[f].awaited =>
            RootOpen(flows[f].caller)

\* C27: every savepoint opened by a nested transaction() call is released
\* or rolled back before the enclosing root transaction commits or rolls
\* back and before this.trx is cleared, also when the enclosing fn does not
\* await the promise of the nested call: while the savepoint of a call made
\* in the fn of a root call is open, that root transaction is open and in
\* the slot.
C27_ClosedBeforeRoot ==
    \A f \in Flows :
        flows[f].spOpen /\ flows[f].site = "fn" => RootOpen(flows[f].caller)

\* The fn of the root call of flow g called transaction() without awaiting
\* it and returned; g has committed and settled, the slot is cleared, and
\* the nested call is still in its fn.
C27_RootSettledFirst ==
    \E g \in Flows : \E f \in Flows \ {g} :
        /\ flows[f].caller = g /\ flows[f].site = "fn" /\ ~flows[f].awaited
        /\ flows[f].kind = "nested" /\ flows[f].pc = "fn" /\ flows[f].spOpen
        /\ flows[g].pc = "done" /\ flows[g].outcome = "resolved"
        /\ flows[g].value \in Results
        /\ trx = 0 /\ trxCount = 1 /\ ~eng.inTx

\* That nested call then rejects: its fn returned, RELEASE and ROLLBACK TO
\* both failed on the savepoint that the COMMIT had removed.
C27_NestedRejects ==
    \E g \in Flows : \E f \in Flows \ {g} :
        /\ flows[f].caller = g /\ flows[f].site = "fn" /\ ~flows[f].awaited
        /\ flows[f].pc = "done" /\ flows[f].res \in Results
        /\ flows[f].outcome = "rejected" /\ flows[f].value = "eRollbackTo"
        /\ flows[g].pc = "done" /\ flows[g].value \in Results

Init ==
    /\ logger \in BOOLEAN
    /\ trx = 0
    /\ trxCount = 0
    /\ calls = <<>>
    /\ ncalls = 0
    /\ stack = <<>>
    /\ eng = Eng0
    /\ nrows = 0
    /\ faults = 0
    /\ sync = SyncIdle
    /\ pre = NoHandle
    /\ soft = Soft0
    /\ tbl = TblIdle
    /\ flows = [f \in Flows |-> NoFlow]

Next ==
    \/ CallTransaction
    \/ Execute
    \/ \E c \in 1..MaxCalls :
        \/ Begin(c)
        \/ Savepoint(c)
        \/ FnReturn(c)
        \/ FnThrow(c)
        \/ Commit(c)
        \/ Rollback(c)
        \/ Release(c)
        \/ RollbackTo(c)
        \/ ThenHook(c)
        \/ CatchHook(c)
        \/ Finally(c)
    \/ Destroy

Spec == Init /\ [][Next]_vars

\* syncDB() on a builder with no transaction in flight.
SyncNext ==
    \/ SyncDB
    \/ SyncIntegrity
    \/ CustomUpdater
    \/ SchemaBegin
    \/ SchemaApply
    \/ SchemaCommit
    \/ SchemaRollback
    \/ SyncReturn
    \/ SyncCatch

SyncSpec == Init /\ [][SyncNext]_vars

\* One handle of precompile().build() and the calls made on it.
PrecompileNext ==
    \/ Build
    \/ Compile
    \/ Dispose

PrecompileSpec == Init /\ [][PrecompileNext]_vars

\* Requests to a softDelete table through the soft-delete executor.
SoftDeleteNext ==
    \/ SoftInsert
    \/ SoftDelete
    \/ SoftSelect
    \/ SoftUpdate

SoftDeleteSpec == Init /\ [][SoftDeleteNext]_vars

\* The column diff of one table and its application.
ColumnNext ==
    \/ ColumnDiff
    \/ ColumnApply
    \/ ColumnDone

ColumnSpec == Init /\ [][ColumnNext]_vars

\* Two flows on one builder, interleaved at their await points.
FlowNext ==
    \E f \in Flows :
        \/ FlowCall(f)
        \/ FlowBegin(f)
        \/ FlowSavepoint(f)
        \/ FlowExecute(f)
        \/ FlowFnReturn(f)
        \/ FlowFnThrow(f)
        \/ FlowCommit(f)
        \/ FlowRollback(f)
        \/ FlowRelease(f)
        \/ FlowRollbackTo(f)
        \/ FlowThenHook(f)
        \/ FlowCatchHook(f)
        \/ FlowHookReturn(f)
        \/ FlowHookThrow(f)
        \/ FlowFinally(f)

FlowSpec == Init /\ [][FlowNext]_vars
====
